---- MODULE Spec2Model ----
(***************************************************************************)
(* Model of src/src/BookmarksViewer.tsx (the later revision of the         *)
(* component, lines 240-523): the bookmark popup's state, its render       *)
(* derivation (flattenBookmarks / filterBookmarks), its effects, its key   *)
(* handler and its timers.                                                 *)
(*                                                                         *)
(* Conventions.  An optional value (url?: string, children?: [],           *)
(* number | null) is None or Some(x).  A string the code inspects by       *)
(* prefix (a url) is a sequence of chunks, "" being the empty sequence.    *)
(* highlightedIdx and copiedIdx are 0-based as in the code; TLA+ sequences *)
(* are 1-based, so filtered[i] of the code is filtered[i + 1] here.        *)
(***************************************************************************)
EXTENDS Integers, Sequences, FiniteSets, TLC

None == <<>>
Some(x) == <<x>>
Get(o) == o[1]

(***************************************************************************)
(* Bounds of the model.                                                    *)
(***************************************************************************)
\* nodes of a bookmark forest handed to the flattener on its own
MaxNodes == 3
\* 700ms timers pending at the same time
MaxCopyTimers == 2
\* 120ms timers, and clipboard writes, pending at the same time
MaxPending == 1

(***************************************************************************)
(* Urls and isInternalUrl.                                                 *)
(***************************************************************************)
EmptyString == <<>>
ChromePrefix == <<"chrome:", "//">>
EdgePrefix == <<"edge:", "//">>
UrlAlpha == <<"http:", "//", "alpha.example">>
UrlChrome == <<"chrome:", "//", "settings">>
UrlEdge == <<"edge:", "//", "flags">>

\* String.prototype.startsWith
StartsWith(s, prefix) ==
    /\ Len(s) >= Len(prefix)
    /\ SubSeq(s, 1, Len(prefix)) = prefix

\* Truthy as `x !== undefined` would have it: "" passes
TruthyDefinedOnly(optStr) == optStr /= None

\* `if (x)` on an optional string: undefined and "" are falsy
Truthy(optStr) == optStr /= None /\ Get(optStr) /= EmptyString

\* url?.startsWith('chrome://') || url?.startsWith('edge://')
isInternalUrl(optUrl) ==
    /\ optUrl /= None
    /\ \/ StartsWith(Get(optUrl), ChromePrefix)
       \/ StartsWith(Get(optUrl), EdgePrefix)

(***************************************************************************)
(* flattenBookmarks: forEach node, push it if it has a url, then concat    *)
(* the flattening of its children onto the result.                         *)
(***************************************************************************)
RECURSIVE flattenBookmarks(_), forEachNode(_, _, _)
forEachNode(nodes, i, result) ==
    IF i > Len(nodes) THEN result
    ELSE LET node == nodes[i]
             pushed == IF Truthy(node.url) THEN Append(result, node) ELSE result
             concatenated == IF node.children /= None
                                THEN pushed \o flattenBookmarks(Get(node.children))
                                ELSE pushed
         IN  forEachNode(nodes, i + 1, concatenated)

flattenBookmarks(nodes) == forEachNode(nodes, 1, <<>>)

(***************************************************************************)
(* filterBookmarks.  The non-empty branch hands the list to fuse.js, which *)
(* is not part of the repository: FuseSearch abstracts it as a             *)
(* deterministic ranking (title hits before url hits, ties in list order)  *)
(* over a fixed table of which text contains which query, and returns      *)
(* nothing for a query shorter than minMatchCharLength.                    *)
(***************************************************************************)
minMatchCharLength == 2

Queries == {"", "s", "se"}

TitleGrams(title) ==
    CASE title = "alpha" -> {"al"}
      [] title = "settings page" -> {"se"}
      [] OTHER -> {}

UrlGrams(optUrl) ==
    IF optUrl = None THEN {}
    ELSE CASE Get(optUrl) = UrlAlpha -> {"al"}
           [] Get(optUrl) = UrlChrome -> {"se"}
           [] OTHER -> {}

FuseScore(node, pattern) ==
    IF pattern \in TitleGrams(node.title) THEN 2
    ELSE IF pattern \in UrlGrams(node.url) THEN 1
    ELSE 0

FuseSearch(nodes, pattern) ==
    IF Len(pattern) < minMatchCharLength THEN <<>>
    ELSE LET TitleHit(n) == FuseScore(n, pattern) = 2
             UrlHit(n) == FuseScore(n, pattern) = 1
         IN  SelectSeq(nodes, TitleHit) \o SelectSeq(nodes, UrlHit)

\* filterBookmarks without its `if (!searchText) return nodes`
filterBookmarksAlwaysFuse(nodes, searchText) == FuseSearch(nodes, searchText)

filterBookmarks(nodes, searchText) ==
    IF searchText = "" THEN nodes ELSE FuseSearch(nodes, searchText)

\* const flatBookmarks = bookmarks.length > 0 && bookmarks[0].children ? ... : []
flatBookmarksOf(bookmarksArr) ==
    IF Len(bookmarksArr) > 0 /\ bookmarksArr[1].children /= None
       THEN flattenBookmarks(Get(bookmarksArr[1].children))
       ELSE <<>>

\* const filtered = filterBookmarks(flatBookmarks, search)
filteredOf(bookmarksArr, searchText) ==
    filterBookmarks(flatBookmarksOf(bookmarksArr), searchText)

(***************************************************************************)
(* Bookmark trees.  A node's id is its path from the root (unique within a *)
(* load).  ForestsFrom(n, parent, i) is every ordered forest of n nodes    *)
(* whose first tree is the i-th child of parent.                           *)
(***************************************************************************)
Node(id, title, url, children) ==
    [id |-> id, title |-> title, url |-> url, children |-> children]

UrlChoices == {None, Some(EmptyString), Some(UrlAlpha)}

RECURSIVE ForestsFrom(_, _, _)
TreesOf(n, id) ==
    { Node(id, "t", u, c) :
        u \in UrlChoices,
        c \in IF n = 1 THEN {None, Some(<<>>)}
              ELSE { Some(f) : f \in ForestsFrom(n - 1, id, 1) } }

ForestsFrom(n, parent, i) ==
    IF n = 0 THEN {<<>>}
    ELSE UNION { { <<t>> \o rest : t \in TreesOf(j, Append(parent, i)),
                                   rest \in ForestsFrom(n - j, parent, i + 1) } :
                 j \in 1..n }

Forests == UNION { ForestsFrom(n, <<>>, 1) : n \in 0..MaxNodes }

(***************************************************************************)
(* What chrome.bookmarks.getTree may hand to the callback: an array with   *)
(* the root node, whose children are the user's bookmarks and folders.     *)
(***************************************************************************)
NodeA == Node(<<1>>, "alpha", Some(UrlAlpha), None)
NodeC == Node(<<2, 1>>, "", Some(UrlChrome), None)
NodeFolder == Node(<<2>>, "work", None, Some(<<NodeC>>))
NodeB == Node(<<3>>, "settings page", Some(UrlEdge), Some(<<>>))

TreeFull == <<Node(<<>>, "", None, Some(<<NodeA, NodeFolder, NodeB>>))>>
TreeFoldersOnly == <<Node(<<>>, "", None, Some(<<Node(<<1>>, "empty", None, Some(<<>>))>>))>>
TreeNoChildren == <<Node(<<>>, "", None, None)>>
TreeResults == {<<>>, TreeNoChildren, TreeFoldersOnly, TreeFull}

(***************************************************************************)
(* State.                                                                  *)
(***************************************************************************)
VARIABLES
    bookmarks,       \* useState<BookmarkNode[]>([])
    loading,         \* useState(true)
    search,          \* useState('')
    highlightedIdx,  \* useState(0)
    copiedIdx,       \* useState<number | null>(null)
    rendered,        \* the committed render: what is on screen and what the
                     \* closures created by that render capture
    needRender,      \* a state update is queued and not yet rendered
    effectsPending,  \* the committed render's effects have not run yet
    syncWork,        \* "queued": an update made in a user event waits for its
                     \* render; "rendered": that render's effects have not run;
                     \* "none" otherwise
    didMount,        \* the mount-only effects have run
    resetDeps,       \* [search, filtered.length] the reset effect last ran with
    handler,         \* the keydown listener registered on window, if any
    mounted,         \* the popup is open
    apiAvailable,    \* chrome && chrome.bookmarks
    treePending,     \* getTree was called and its callback has not fired
    focusTimer,      \* the 50ms focus timer: "none", "pending", "fired", "cleared"
    copyTimers,      \* number of pending 700ms timers
    tabTimers,       \* pending 120ms timers, oldest first: for each, whether
                     \* the clipboard write its Enter started is in flight
    writesInFlight,  \* number of clipboard writes whose promise has not
                     \* settled
    copiedUrl,       \* the address handed to the doCopy that set the copied
                     \* flag; None while the flag is null
    last,            \* the operation that produced this state: what it read and
                     \* the requests it made to the host
    fnIn, fnOut, fnPc \* the render derivation applied to an arbitrary input

vars == <<bookmarks, loading, search, highlightedIdx, copiedIdx, rendered,
          needRender, effectsPending, syncWork, didMount, resetDeps, handler,
          mounted, apiAvailable, treePending, focusTimer, copyTimers, tabTimers,
          writesInFlight, copiedUrl, last, fnIn, fnOut, fnPc>>

hookState == <<bookmarks, loading, search, highlightedIdx, copiedIdx>>
harness == <<fnIn, fnOut, fnPc>>
timers == <<focusTimer, copyTimers, tabTimers>>

\* the two early returns in the other order: the bookmarks test first
ScreenOfEmptyFirst(isLoading, bookmarksArr) ==
    IF Len(bookmarksArr) = 0 THEN "none"
    ELSE IF isLoading THEN "loading"
    ELSE "list"

\* The component's return value: lines 462-463 and the list below them.
ScreenOf(isLoading, bookmarksArr) ==
    IF isLoading THEN "loading"
    ELSE IF Len(bookmarksArr) = 0 THEN "none"
    ELSE "list"

\* One evaluation of the component function over the hook state.
RenderOf(bookmarksArr, isLoading, searchText, idx, copied) ==
    [screen |-> ScreenOf(isLoading, bookmarksArr),
     search |-> searchText,
     filtered |-> filteredOf(bookmarksArr, searchText),
     highlightedIdx |-> idx,
     copiedIdx |-> copied]

\* A request to the host: "write" (clipboard.writeText(url)), "open"
\* (window.open(url, '_blank')) or "blank" (a new tab with no address).
Request(type, url) == [type |-> type, url |-> url]

\* What an operation read and did: the state's index before it, the index
\* and the list length its closure held, the url it acted on, the requests
\* it made, and (for the 120ms timer) whether its write was still in flight.
LastOf(name, idx, closureIdx, n, url, out, unsettled) ==
    [op |-> name, idx |-> idx, closureIdx |-> closureIdx, n |-> n, url |-> url,
     out |-> out, unsettled |-> unsettled]

Op(name) == LastOf(name, 0, 0, 0, None, <<>>, FALSE)

InitPopup ==
    /\ bookmarks = <<>>
    /\ loading = TRUE
    /\ search = ""
    /\ highlightedIdx = 0
    /\ copiedIdx = None
    /\ rendered = RenderOf(<<>>, TRUE, "", 0, None)
    /\ needRender = FALSE
    /\ effectsPending = TRUE
    /\ syncWork = "rendered"
    /\ didMount = FALSE
    /\ resetDeps = None
    /\ handler = None
    /\ mounted = TRUE
    /\ apiAvailable \in BOOLEAN
    /\ treePending = FALSE
    /\ focusTimer = "none"
    /\ copyTimers = 0
    /\ tabTimers = <<>>
    /\ writesInFlight = 0
    /\ copiedUrl = None
    /\ last = Op("mount")

Init ==
    /\ InitPopup
    /\ fnIn = None
    /\ fnOut = None
    /\ fnPc = "idle"

(***************************************************************************)
(* Rendering and effects.  A state update marks the component for a        *)
(* render; the render commits a new view; its effects run afterwards, in   *)
(* declaration order, and before the next render.  An update made in a     *)
(* user event (a key, a click, typing) is rendered, and that render's      *)
(* effects run, before the browser dispatches the next event; an update    *)
(* made by a timer, by the getTree callback or by an effect is rendered    *)
(* in a later task, and host events may arrive before it is.               *)
(***************************************************************************)
Idle == syncWork = "none"

Render ==
    /\ mounted
    /\ needRender
    /\ ~effectsPending
    /\ rendered' = RenderOf(bookmarks, loading, search, highlightedIdx, copiedIdx)
    /\ needRender' = FALSE
    /\ effectsPending' = TRUE
    /\ syncWork' = IF syncWork = "queued" THEN "rendered" ELSE syncWork
    \* n: the length of the list this render replaces on screen
    /\ last' = LastOf("render", 0, 0, Len(rendered.filtered), None, <<>>, FALSE)
    /\ UNCHANGED <<hookState, didMount, resetDeps, handler, mounted, apiAvailable,
                   treePending, timers, writesInFlight, copiedUrl, harness>>

\* the reset effect with an empty dependency array: it runs on mount only
ResetEffectOnMountOnly == resetDeps = None

\* useEffect(() => { setHighlightedIdx(0) }, [search, filtered.length])
ResetDepsOf(view) == Some(<<view.search, Len(view.filtered)>>)
ResetEffectRuns == resetDeps /= ResetDepsOf(rendered)

\* the closure of the keydown effect's handleKeyDown
HandlerOf(view) ==
    Some([filtered |-> view.filtered, highlightedIdx |-> view.highlightedIdx])

RunEffects ==
    /\ mounted
    /\ effectsPending
    /\ effectsPending' = FALSE
    /\ syncWork' = IF syncWork = "rendered" THEN "none" ELSE syncWork
    /\ didMount' = TRUE
    \* focus effect, on mount: setTimeout(..., 50)
    /\ focusTimer' = IF didMount THEN focusTimer ELSE "pending"
    \* getTree effect, on mount
    /\ treePending' = IF didMount THEN treePending ELSE apiAvailable
    /\ loading' = IF ~didMount /\ ~apiAvailable THEN FALSE ELSE loading
    \* reset effect
    /\ highlightedIdx' = IF ResetEffectRuns THEN 0 ELSE highlightedIdx
    /\ resetDeps' = ResetDepsOf(rendered)
    \* keydown effect: `filtered` is a new array on every render, so the old
    \* listener is removed and one closing over this render is added
    /\ handler' = HandlerOf(rendered)
    /\ needRender' = (needRender \/ loading' /= loading
                                 \/ highlightedIdx' /= highlightedIdx)
    /\ last' = Op(IF ResetEffectRuns THEN "effects+reset" ELSE "effects")
    /\ UNCHANGED <<bookmarks, search, copiedIdx, rendered, mounted, apiAvailable,
                   copyTimers, tabTimers, writesInFlight, copiedUrl, harness>>

\* chrome.bookmarks.getTree's callback
GetTreeCallback(results) ==
    /\ Idle
    /\ treePending
    /\ treePending' = FALSE
    /\ IF mounted
          THEN /\ bookmarks' = results
               /\ loading' = FALSE
               /\ needRender' = TRUE
          ELSE UNCHANGED <<bookmarks, loading, needRender>>
    /\ last' = Op("getTree")
    /\ UNCHANGED <<search, highlightedIdx, copiedIdx, rendered, effectsPending,
                   syncWork, didMount, resetDeps, handler, mounted, apiAvailable,
                   timers, writesInFlight, copiedUrl, harness>>

\* onChange of the search input: setSearch(e.target.value)
SetSearch(text) ==
    /\ Idle
    /\ mounted
    /\ rendered.screen = "list"
    /\ text /= rendered.search
    /\ search' = text
    /\ needRender' = (needRender \/ text /= search)
    /\ syncWork' = IF text /= search THEN "queued" ELSE "none"
    /\ last' = Op("search")
    /\ UNCHANGED <<bookmarks, loading, highlightedIdx, copiedIdx, rendered,
                   effectsPending, didMount, resetDeps, handler, mounted,
                   apiAvailable, treePending, timers, writesInFlight, copiedUrl,
                   harness>>

(***************************************************************************)
(* doCopy(url, idx): navigator.clipboard.writeText(url) is started and not *)
(* awaited, setCopiedIdx(idx), setTimeout(() => setCopiedIdx(null), 700).  *)
(***************************************************************************)
\* doCopy without its last statement, the setTimeout of line 366
doCopyNoTimer(url, idx) ==
    /\ writesInFlight' = writesInFlight + 1
    /\ copiedIdx' = Some(idx)
    /\ copiedUrl' = Some(url)
    /\ copyTimers' = copyTimers
    /\ needRender' = (needRender \/ copiedIdx /= Some(idx))

CanCopy ==
    /\ writesInFlight < MaxPending
    /\ copyTimers < MaxCopyTimers

doCopy(url, idx) ==
    /\ writesInFlight' = writesInFlight + 1
    /\ copiedIdx' = Some(idx)
    /\ copiedUrl' = Some(url)
    /\ copyTimers' = copyTimers + 1
    /\ needRender' = (needRender \/ copiedIdx /= Some(idx))

\* onClick of a rendered entry's copy icon: handleCopy(e, node.url, idx)
CopyClick(idx) ==
    /\ Idle
    /\ mounted
    /\ rendered.screen = "list"
    /\ idx < Len(rendered.filtered)
    /\ isInternalUrl(rendered.filtered[idx + 1].url)
    /\ CanCopy
    /\ doCopy(Get(rendered.filtered[idx + 1].url), idx)
    /\ syncWork' = IF copiedIdx' /= copiedIdx THEN "queued" ELSE "none"
    /\ last' = LastOf("copyClick", 0, idx, Len(rendered.filtered),
                      rendered.filtered[idx + 1].url,
                      <<Request("write", Get(rendered.filtered[idx + 1].url))>>, FALSE)
    /\ UNCHANGED <<bookmarks, loading, search, highlightedIdx, rendered,
                   effectsPending, didMount, resetDeps, handler, mounted,
                   apiAvailable, treePending, focusTimer, tabTimers,
                   harness>>

(***************************************************************************)
(* handleKeyDown, as registered by the keydown effect: `filtered` and      *)
(* `highlightedIdx` are the values of the render that registered it; the   *)
(* arrow keys' updater functions receive the current state.                *)
(***************************************************************************)
Keys == {"ArrowDown", "ArrowUp", "Enter"}

ArrowDownIdx(idx, n) == (idx + 1) % n
ArrowUpIdx(idx, n) == (idx - 1 + n) % n

\* const node = filtered[highlightedIdx]
EntryAt(list, idx) == IF idx < Len(list) THEN Some(list[idx + 1]) ELSE None

\* the Enter branch of the earlier revision (lines 150-154): any url is
\* opened, internal or not
EnterBranchAlwaysOpens(list, idx) ==
    LET node == EntryAt(list, idx)
    IN  IF node = None THEN "return"
        ELSE IF ~Truthy(Get(node).url) THEN "return"
        ELSE "open"

\* the Enter branch with the test of isInternalUrl negated
EnterBranchNegated(list, idx) ==
    LET node == EntryAt(list, idx)
    IN  IF node = None THEN "return"
        ELSE IF ~Truthy(Get(node).url) THEN "return"
        ELSE IF ~isInternalUrl(Get(node).url) THEN "copy"
        ELSE "open"

\* which way the Enter branch of handleKeyDown goes
EnterBranch(list, idx) ==
    LET node == EntryAt(list, idx)
    IN  IF node = None THEN "return"                  \* if (!node) return
        ELSE IF ~Truthy(Get(node).url) THEN "return"  \* if (!url) return
        ELSE IF isInternalUrl(Get(node).url) THEN "copy"
        ELSE "open"

KeyFrame == <<bookmarks, loading, search, rendered, effectsPending, didMount,
              resetDeps, handler, mounted, apiAvailable, treePending, focusTimer,
              harness>>

\* an early return that first dismisses the copied flag
KeyNoopClearsCopied ==
    /\ copiedIdx' = None
    /\ UNCHANGED <<highlightedIdx, needRender, copyTimers, tabTimers,
                   writesInFlight, copiedUrl>>

KeyNoop ==
    UNCHANGED <<highlightedIdx, copiedIdx, needRender, copyTimers, tabTimers,
                writesInFlight, copiedUrl>>

KeyDown(key) ==
    /\ Idle
    /\ mounted
    /\ handler /= None
    /\ LET h == Get(handler)
           n == Len(h.filtered)
           node == EntryAt(h.filtered, h.highlightedIdx)
           url == IF node = None THEN None ELSE Get(node).url
           Moved == LastOf(key, highlightedIdx, 0, n, None, <<>>, FALSE)
           Did(out) == LastOf(key, 0, h.highlightedIdx, n, url, out, FALSE)
       IN  IF n = 0 THEN KeyNoop /\ last' = LastOf(key, 0, 0, 0, None, <<>>, FALSE)
           ELSE IF key = "ArrowDown" THEN
                /\ highlightedIdx' = ArrowDownIdx(highlightedIdx, n)
                /\ needRender' = (needRender \/ highlightedIdx' /= highlightedIdx)
                /\ last' = Moved
                /\ UNCHANGED <<copiedIdx, copyTimers, tabTimers, writesInFlight,
                               copiedUrl>>
           ELSE IF key = "ArrowUp" THEN
                /\ highlightedIdx' = ArrowUpIdx(highlightedIdx, n)
                /\ needRender' = (needRender \/ highlightedIdx' /= highlightedIdx)
                /\ last' = Moved
                /\ UNCHANGED <<copiedIdx, copyTimers, tabTimers, writesInFlight,
                               copiedUrl>>
           ELSE IF EnterBranch(h.filtered, h.highlightedIdx) = "return" THEN
                KeyNoop /\ last' = Did(<<>>)
           ELSE IF EnterBranch(h.filtered, h.highlightedIdx) = "copy" THEN
                /\ CanCopy
                /\ Len(tabTimers) < MaxPending
                /\ doCopy(Get(url), h.highlightedIdx)
                /\ tabTimers' = Append(tabTimers, TRUE)
                /\ last' = Did(<<Request("write", Get(url))>>)
                /\ UNCHANGED highlightedIdx
           ELSE /\ last' = Did(<<Request("open", Get(url))>>)
                /\ KeyNoop
    /\ syncWork' = IF highlightedIdx' /= highlightedIdx \/ copiedIdx' /= copiedIdx
                    THEN "queued" ELSE "none"
    /\ UNCHANGED KeyFrame

(***************************************************************************)
(* Host callbacks.                                                         *)
(***************************************************************************)
\* the writes in flight that a pending 120ms timer was started after
WaitedFor == Cardinality({ k \in 1..Len(tabTimers) : tabTimers[k] })

\* the promise of writeText settles: the text is on the clipboard or the
\* write was rejected (nobody observes the rejection).  k names the write:
\* that of the Enter which started the k-th pending 120ms timer, or, for
\* k = 0, one started by a click or by an Enter whose timer has fired.
ClipboardWriteSettles(k, ok) ==
    /\ Idle
    /\ k \in 0..Len(tabTimers)
    /\ IF k = 0
          THEN /\ writesInFlight > WaitedFor
               /\ UNCHANGED tabTimers
          ELSE /\ tabTimers[k]
               /\ tabTimers' = [tabTimers EXCEPT ![k] = FALSE]
    /\ writesInFlight' = writesInFlight - 1
    /\ last' = Op(IF ok THEN "writeLanded" ELSE "writeRejected")
    /\ UNCHANGED <<hookState, rendered, needRender, effectsPending, syncWork,
                   didMount,
                   resetDeps, handler, mounted, apiAvailable, treePending,
                   focusTimer, copyTimers, copiedUrl, harness>>

\* setTimeout(() => setCopiedIdx(null), 700)
CopyTimerFires ==
    /\ Idle
    /\ copyTimers > 0
    /\ copyTimers' = copyTimers - 1
    /\ IF mounted
          THEN /\ copiedIdx' = None
               /\ copiedUrl' = None
               /\ needRender' = (needRender \/ copiedIdx /= None)
          ELSE UNCHANGED <<copiedIdx, copiedUrl, needRender>>
    /\ last' = Op("copyTimer")
    /\ UNCHANGED <<bookmarks, loading, search, highlightedIdx, rendered,
                   effectsPending, syncWork, didMount, resetDeps, handler, mounted,
                   apiAvailable, treePending, focusTimer, tabTimers, writesInFlight,
                   harness>>

\* setTimeout(() => { chrome.tabs.create({}) or window.open('', '_blank') }, 120)
TabTimerFires ==
    /\ Idle
    /\ tabTimers /= <<>>
    /\ tabTimers' = Tail(tabTimers)
    /\ last' = LastOf("tabTimer", 0, 0, 0, None,
                      <<Request("blank", EmptyString)>>, Head(tabTimers))
    /\ UNCHANGED <<hookState, rendered, needRender, effectsPending, syncWork,
                   didMount,
                   resetDeps, handler, mounted, apiAvailable, treePending,
                   focusTimer, copyTimers, writesInFlight,
                   copiedUrl, harness>>

\* setTimeout(() => { if (searchInputRef.current) searchInputRef.current.focus() }, 50)
FocusTimerFires ==
    /\ Idle
    /\ focusTimer = "pending"
    /\ focusTimer' = "fired"
    /\ last' = Op(IF rendered.screen = "list" THEN "focusTimer+focus" ELSE "focusTimer")
    /\ UNCHANGED <<hookState, rendered, needRender, effectsPending, syncWork,
                   didMount,
                   resetDeps, handler, mounted, apiAvailable, treePending,
                   copyTimers, tabTimers, writesInFlight, copiedUrl, harness>>

\* The pointer comes to lie over the rendered entry idx.  The entry's element
\* (lines 321-341) carries no pointer handler and the component keeps no
\* interaction mode, so whichever way the pointer got there, because it was
\* moved ("pointer") or because the list changed under it after key input
\* ("keyboard"), no state is touched.
InteractionModes == {"pointer", "keyboard"}

Hover(idx, mode) ==
    /\ Idle
    /\ mounted
    /\ rendered.screen = "list"
    /\ idx < Len(rendered.filtered)
    /\ last' = LastOf(IF mode = "pointer" THEN "hover" ELSE "hoverKeyboard",
                      highlightedIdx, idx, Len(rendered.filtered), None, <<>>, FALSE)
    /\ UNCHANGED <<hookState, rendered, needRender, effectsPending, syncWork,
                   didMount, resetDeps, handler, mounted, apiAvailable,
                   treePending, timers, writesInFlight, copiedUrl, harness>>

\* The popup closes: the component unmounts and the effects' cleanups run,
\* clearTimeout(timer) of the focus effect and removeEventListener.
Unmount ==
    /\ Idle
    /\ mounted
    /\ mounted' = FALSE
    /\ focusTimer' = IF focusTimer = "pending" THEN "cleared" ELSE focusTimer
    /\ handler' = None
    \* the component's hook state and pending work go with it
    /\ bookmarks' = <<>>
    /\ loading' = TRUE
    /\ search' = ""
    /\ highlightedIdx' = 0
    /\ copiedIdx' = None
    /\ copiedUrl' = None
    /\ rendered' = RenderOf(<<>>, TRUE, "", 0, None)
    /\ resetDeps' = None
    /\ effectsPending' = FALSE
    /\ needRender' = FALSE
    /\ syncWork' = "none"
    /\ last' = Op("unmount")
    /\ UNCHANGED <<didMount, apiAvailable, treePending, copyTimers, tabTimers,
                   writesInFlight, harness>>

Next ==
    \/ Render
    \/ RunEffects
    \/ \E results \in TreeResults : GetTreeCallback(results)
    \/ \E text \in Queries : SetSearch(text)
    \/ \E key \in Keys : KeyDown(key)
    \/ \E idx \in 0..(Len(rendered.filtered) - 1) : CopyClick(idx)
    \/ \E idx \in 0..(Len(rendered.filtered) - 1), mode \in InteractionModes :
          Hover(idx, mode)
    \/ \E k \in 0..Len(tabTimers), ok \in BOOLEAN : ClipboardWriteSettles(k, ok)
    \/ CopyTimerFires
    \/ TabTimerFires
    \/ FocusTimerFires
    \/ Unmount

Spec == Init /\ [][Next]_vars

(***************************************************************************)
(* The same program under the scheduling the host guarantees: a queued     *)
(* render is carried out, a committed render's effects run, and a 700ms    *)
(* timer that is due fires once the event loop is free, however often user *)
(* events get in before it.                                                *)
(***************************************************************************)
SpecTimersFire ==
    /\ Spec
    /\ WF_vars(Render)
    /\ WF_vars(RunEffects)
    /\ SF_vars(CopyTimerFires)

(***************************************************************************)
(* The render derivation on its own (lines 415-419 and 462-463): for any   *)
(* array the host may hand over and any query, the flattened list and the  *)
(* view the component computes from them.                                  *)
(***************************************************************************)
RootOf(children) == Node(<<>>, "", None, children)

DerivationInputs ==
    { [bookmarks |-> b, search |-> q] :
        b \in {<<>>, <<RootOf(None)>>} \cup { <<RootOf(Some(f))>> : f \in Forests },
        q \in {"", "al", "s"} }

InitDerivation ==
    /\ InitPopup
    /\ fnIn \in DerivationInputs
    /\ fnOut = None
    /\ fnPc = "ready"

Derive ==
    /\ fnPc = "ready"
    /\ fnOut' = [flat |-> flatBookmarksOf(fnIn.bookmarks),
                 view |-> RenderOf(fnIn.bookmarks, FALSE, fnIn.search, 0, None)]
    /\ fnPc' = "done"
    /\ UNCHANGED <<hookState, rendered, needRender, effectsPending, syncWork,
                   didMount, resetDeps, handler, mounted, apiAvailable,
                   treePending, timers, writesInFlight, copiedUrl, last, fnIn>>

NextDerivation == Derive

SpecDerivation == InitDerivation /\ [][NextDerivation]_vars


(***************************************************************************)
(* Properties.                                                             *)
(***************************************************************************)
Arrows == {"ArrowDown", "ArrowUp"}

\* an address with a reserved internal scheme, read off the address itself
ReservedScheme(url) ==
    /\ Len(url) >= 2
    /\ url[1] \in {"chrome:", "edge:"}
    /\ url[2] = "//"

\* C1: in every state the popup shows, the highlighted index is 0 with an
\* empty list (no selection) and otherwise an index of the list shown; no
\* view, the one committed before the reset effect runs included, holds an
\* index at or beyond the length of its list.
C1_IndexWithinList ==
    LET n == Len(rendered.filtered)
    IN  IF n = 0 THEN rendered.highlightedIdx = 0
        ELSE rendered.highlightedIdx \in 0..(n - 1)

\* C2: ArrowDown over a list of n > 0 entries moves the index i to i + 1
\* when i < n - 1 and leaves it at n - 1 when i = n - 1; it never wraps to 0.
C2_ArrowDownClamps ==
    (last.op = "ArrowDown" /\ last.n > 0) =>
        /\ last.idx < last.n - 1 => highlightedIdx = last.idx + 1
        /\ last.idx = last.n - 1 => highlightedIdx = last.n - 1

\* C3: ArrowUp over a non-empty list moves the index i to i - 1 when i > 0
\* and leaves it at 0 when i = 0; it never wraps to the last position.
C3_ArrowUpClamps ==
    (last.op = "ArrowUp" /\ last.n > 0) =>
        /\ last.idx > 0 => highlightedIdx = last.idx - 1
        /\ last.idx = 0 => highlightedIdx = 0

\* C4: when the list has changed and is not empty, the reset effect has run
\* and a key is the next thing handled, against the new list, that key finds
\* the index reset to 0: an arrow key moves from index 0, and Enter acts on
\* the entry at index 0.
C4_ResetBeforeInput ==
    [][ ( /\ last'.op \in Keys
          /\ last.op = "effects+reset"
          /\ handler /= None
          /\ Get(handler).filtered = rendered.filtered
          /\ Len(rendered.filtered) > 0 )
        => /\ last'.op \in Arrows => highlightedIdx = 0
           /\ last'.op = "Enter" => Get(handler).highlightedIdx = 0 ]_vars

\* The nodes of a forest, and document order on their ids (a node before
\* its descendants, an earlier sibling's subtree before a later sibling's).
RECURSIVE NodesOf(_)
NodesOf(forest) ==
    UNION { {forest[i]} \cup (IF forest[i].children = None THEN {}
                              ELSE NodesOf(Get(forest[i].children))) :
            i \in 1..Len(forest) }

PathBefore(p, q) ==
    \/ Len(p) < Len(q) /\ SubSeq(q, 1, Len(p)) = p
    \/ \E k \in 1..Len(p) :
          /\ k <= Len(q)
          /\ SubSeq(p, 1, k - 1) = SubSeq(q, 1, k - 1)
          /\ p[k] < q[k]

Addressable(forest) ==
    { n \in NodesOf(forest) : n.url /= None /\ Get(n.url) /= EmptyString }

DerivedForest == Get(fnIn.bookmarks[1].children)
DerivedFromForest ==
    /\ fnPc = "done"
    /\ fnIn.bookmarks /= <<>>
    /\ fnIn.bookmarks[1].children /= None

\* C5: flattenBookmarks(T) holds exactly the nodes of T with a non-empty
\* url, each once, in pre-order; flattenBookmarks([]) is empty.
C5_FlattenIsPreorder ==
    DerivedFromForest =>
        LET out == fnOut.flat
        IN  /\ { out[i] : i \in 1..Len(out) } = Addressable(DerivedForest)
            /\ Len(out) = Cardinality(Addressable(DerivedForest))
            /\ \A i, j \in 1..Len(out) : i < j => PathBefore(out[i].id, out[j].id)
            /\ DerivedForest = <<>> => out = <<>>

\* a nested bookmark is followed by a bookmark of a shallower level, and a
\* folder was skipped
C5_Witness ==
    /\ DerivedFromForest
    /\ \E i \in 1..(Len(fnOut.flat) - 1) :
          Len(fnOut.flat[i].id) > Len(fnOut.flat[i + 1].id)
    /\ Cardinality(NodesOf(DerivedForest)) > Len(fnOut.flat)

\* C6: with an empty query the list displayed is the flattened list itself:
\* same entries, same order, same length.
C6_EmptyQueryIsIdentity ==
    (fnPc = "done" /\ fnIn.search = "") =>
        /\ fnOut.view.filtered = fnOut.flat
        /\ Len(fnOut.view.filtered) = Len(fnOut.flat)

C6_Witness ==
    /\ fnPc = "done"
    /\ fnIn.search = ""
    /\ Len(fnOut.flat) >= 3
    /\ fnOut.view.screen = "list"

C8_WitnessNoEntry ==
    /\ last.op = "Enter"
    /\ last.n > 0
    /\ last.closureIdx >= last.n

\* C9: when the 120ms timer requests the blank tab, the clipboard write
\* started by the same Enter has settled.
C9_WriteSettledBeforeBlankTab ==
    last.op = "tabTimer" => ~last.unsettled

\* C10: once the popup is closed no timer it started fires: not the focus
\* timer, not a 700ms timer, not a 120ms timer.
C10_NoTimerAfterClose ==
    ~mounted => last.op \notin {"focusTimer", "focusTimer+focus", "copyTimer", "tabTimer"}

\* C11: a pointer hover over the entry at index j while the interaction is
\* pointer-driven makes j the highlighted index; a hover while it is
\* keyboard-driven leaves the highlighted index as it was.
C11_HoverSelectsInPointerMode ==
    /\ last.op = "hover" => highlightedIdx = last.closureIdx
    /\ last.op = "hoverKeyboard" => highlightedIdx = last.idx

\* C12: while the popup is open, getTree is there to be called and its
\* callback has not fired, the view is the Loading view (no search field, no
\* list) and stays so whatever else happens; a key pressed over the Loading
\* view changes no state and makes no request; and a popup that has left the
\* Loading view never shows it again.
C12_LoadingUntilCallback ==
    /\ []( (mounted /\ apiAvailable /\ (~didMount \/ treePending)) =>
              (loading /\ rendered.screen = "loading") )
    /\ [][ (last'.op \in Keys /\ rendered.screen = "loading") =>
              /\ last'.out = <<>>
              /\ UNCHANGED <<hookState, rendered, needRender, handler, timers,
                             writesInFlight>> ]_vars
    /\ [][ (mounted' /\ rendered.screen /= "loading") =>
              (rendered'.screen /= "loading" /\ ~loading') ]_vars

\* a key was pressed while the retrieval was outstanding
C12_Witness ==
    /\ last.op \in Keys
    /\ mounted
    /\ treePending
    /\ rendered.screen = "loading"

\* C13: an open popup that has left Loading with nothing to list, because
\* the bookmark API is unavailable or because the tree the host returned
\* holds no bookmark with an address, shows the "No bookmarks found." view.
C13_NoDataShowsEmptyState ==
    (mounted /\ ~loading /\ ~needRender /\ flatBookmarksOf(bookmarks) = <<>>) =>
        rendered.screen = "none"

\* a query that matches nothing is on screen
NoMatchesShown ==
    /\ mounted
    /\ rendered.search /= ""
    /\ rendered.filtered = <<>>

\* C14: with bookmarks loaded, a query that matches nothing leaves the
\* search field on screen and puts the "no matches" message in the list
\* region only; when the query is edited so that entries match again, the
\* list comes back with the highlighted index at 0.
C14_NoMatchesKeepsSearchField ==
    /\ [](NoMatchesShown => rendered.screen = "list")
    /\ [][ (NoMatchesShown /\ mounted' /\ rendered'.filtered /= <<>>) =>
              /\ rendered'.screen = "list"
              /\ rendered'.highlightedIdx = 0
              /\ highlightedIdx' = 0 ]_vars

\* the list has just come back from a query that matched nothing
C14_Witness ==
    /\ last.op = "render"
    /\ last.n = 0
    /\ rendered.search /= ""
    /\ Len(rendered.filtered) >= 2
    /\ rendered.highlightedIdx = 0

\* C15: a copy, by a click on a copy icon or by Enter on an internal entry,
\* sets the copied flag to the index of the entry copied; and while the
\* popup stays open and timers fire, a flag that is set is eventually null
\* again: it is never left set forever.
C15_CopiedFlagIsTransient ==
    /\ []( ( /\ last.op \in {"copyClick", "Enter"}
              /\ last.out /= <<>>
              /\ last.out[1].type = "write" ) =>
              copiedIdx = Some(last.closureIdx) )
    /\ ((mounted /\ copiedIdx /= None) ~> (copiedIdx = None \/ ~mounted))

\* a 700ms timer fired in the open popup and the flag is null
C15_Witness ==
    /\ last.op = "copyTimer"
    /\ mounted
    /\ copiedIdx = None
    /\ rendered.copiedIdx /= None

\* C16: ArrowUp and ArrowDown change nothing but the highlighted index: the
\* query, the loaded bookmarks, the list on screen, the loading flag, the
\* copied flag, the timers and the clipboard writes stay as they were and no
\* request is made; over an empty list they change nothing at all.
C16_ArrowsOnlyMoveHighlight ==
    [][ last'.op \in Arrows =>
          /\ last'.out = <<>>
          /\ UNCHANGED <<bookmarks, loading, search, copiedIdx, rendered, handler,
                         timers, writesInFlight>>
          /\ filteredOf(bookmarks', search') = filteredOf(bookmarks, search)
          /\ (Len(rendered.filtered) = 0 \/ Len(Get(handler).filtered) = 0) =>
                UNCHANGED <<highlightedIdx, needRender>> ]_vars

\* an arrow key moved the highlight while the copied flag was set
C16_Witness ==
    /\ last.op \in Arrows
    /\ highlightedIdx /= last.idx
    /\ copiedIdx /= None
    /\ copyTimers > 0

\* an arrow key was pressed over a query that matches nothing
C16_WitnessEmpty ==
    /\ last.op \in Arrows
    /\ last.n = 0
    /\ NoMatchesShown
    /\ copiedIdx /= None

\* C17: an Enter that copies or opens an entry acts on the entry at the
\* highlighted index the state holds when it is pressed, the index every
\* arrow key and reset processed before it has led to, in the list the
\* current bookmarks and query give.
C17_EnterActsOnHighlighted ==
    (last.op = "Enter" /\ last.out /= <<>>) =>
        LET current == filteredOf(bookmarks, search)
        IN  /\ last.closureIdx = highlightedIdx
            /\ highlightedIdx < Len(current)
            /\ last.url = current[highlightedIdx + 1].url

\* C18: while the copied flag is set, the entry on screen at the flag's
\* index is the entry whose address was copied last, also after the query
\* has been edited and the list on screen has changed.
C18_CopiedFlagMarksCopiedEntry ==
    (mounted /\ copiedIdx /= None) =>
        LET shown == EntryAt(rendered.filtered, Get(copiedIdx))
        IN  /\ shown /= None
            /\ Get(shown).url = copiedUrl

\* C19: a 700ms timer clears the copied flag only if it is the timer of the
\* copy that set the flag.  Timers of equal delay fire in the order they
\* were started and the flag in place was set by the latest copy, so the
\* timer that fires is that copy's own exactly when it is the only one
\* pending.
C19_OwnTimerClearsFlag ==
    [][ (last'.op = "copyTimer" /\ mounted /\ copiedIdx /= None) =>
          copyTimers = 1 ]_vars

====
